---- MODULE Spec2Model ----
(***************************************************************************)
(* The diagnostic gRPC service of onos-config (pkg/northbound/diags):      *)
(* GetOpState, ListNetworkChanges and ListDeviceChanges, run as concurrent *)
(* sessions against the network-change store, the device-change store,     *)
(* the operational-state cache and the dispatcher.                         *)
(*                                                                         *)
(* A session is one invocation of a handler on one gRPC stream.  A         *)
(* handler's select statement is modelled with Go's semantics: a handler   *)
(* that polls (pc = "select") takes any ready case; a handler that found   *)
(* nothing ready parks (pc = "wait") and is then committed to the case     *)
(* that wakes it.                                                          *)
(*                                                                         *)
(* Beside the service, three parts of the core that it does not touch:     *)
(* the rollback of a NetworkChange by name (SpecAdmin), the snapshot       *)
(* identifier of pkg/types/snapshot/device (SpecSnap) and the conversion   *)
(* between gnmi.TypedValue and devicechange.TypedValue (SpecCodec).        *)
(***************************************************************************)
EXTENDS Integers, Sequences, FiniteSets, TLC

\* ---------------------------------------------------------------- bounds
MaxNetLog == 2
MaxDevLog == 2
MaxOpEvents == 2
MaxIdLen == 2
MaxListLen == 2

\* ------------------------------------------------------------- universes
Sessions == {1, 2}
\* Addresses a stream object can be allocated at ("diags-%p").
Addrs == {1, 2}
\* NetworkChange identifiers, as sequences of characters.
ChangeIDs == {<<"a", "b">>, <<"b", "a">>, <<"b">>}
\* Wildcard patterns a ListNetworkChangeRequest carries in ChangeID.
Patterns == {<<"*">>, <<"a", "*">>}
\* (DeviceID, DeviceVersion) keys of the device-change store.
DevKeys == {<<"d1", "v1">>, <<"d1", "v2">>}
\* The devices with an operational-state cache, and the devices a request
\* names: one with a cache and one without.
Devices == {"d1", "d2"}
ReqDevices == {"d1", "dx"}
Paths == {"p1", "p2"}
Values == {"x", "y"}
\* The state updates (device, path, value) the devices report.
Updates == {<<"d1", "p1", "x">>, <<"d1", "p1", "y">>, <<"d1", "p2", "x">>,
            <<"d2", "p1", "x">>}

NoReq == [rpc |-> "none", subscribe |-> FALSE, withoutReplay |-> FALSE,
          changeID |-> <<>>, key |-> <<>>, deviceId |-> ""]

VARIABLES
    netLog,      \* NetworkChangesStore: the changes in creation order
    devLog,      \* DeviceChangesStore: per key, the changes in creation order
    devCount,    \* number of device changes created so far (their IDs)
    cache,       \* OperationalStateCache: device -> (path -> value)
    opPending,   \* state updates written to the cache, not yet dispatched
    opEvents,    \* the events the dispatcher has fanned out, in order
    listeners,   \* Dispatcher.opStateListeners: streamID -> owning session
    req,         \* per session: the request
    pc,          \* per session: the handler's position
    ret,         \* per session: the handler's return value
    sent,        \* per session: the messages sent on the stream
    cursor,      \* per session: events taken from the source so far
    subStart,    \* per session: length of the source when subscribed
    listEnd,     \* per session: length of the log when List was called
    srcClosed,   \* per session: the event/change channel has been closed
    ctxState,    \* per session: the store's stream context
    cancelled,   \* per session: stream.Context() is done
    addr,        \* per session: address of the stream object (0: unused)
    snapDom,     \* per session: paths of deviceCache when the range began
    visited,     \* per session: paths the range loop has produced
    endedBy,     \* per session: which exit path the handler took
    sendFailed,  \* per session: a Send on the stream returned an error
    cancelledWaiting, \* per session: cancelled while parked in select
    phase,       \* NetworkChangesStore: the phase of each change of netLog
    admin,       \* the last RollbackNetworkChange call and its outcome
    snap,        \* a snapshot-ID computation: its inputs and results
    codec        \* a value conversion: its inputs and results

vars == <<netLog, devLog, devCount, cache, opPending, opEvents, listeners,
          req, pc, ret, sent, cursor, subStart, listEnd, srcClosed, ctxState,
          cancelled, addr, snapDom, visited, endedBy, sendFailed,
          cancelledWaiting, phase, admin, snap, codec>>

storeVars == <<netLog, phase, devLog, devCount, cache>>
\* The admin call and the two libraries, which the diagnostic service never
\* touches.
libVars == <<admin, snap, codec>>
opVars == <<opPending, opEvents>>
sessVars == <<req, pc, ret, sent, cursor, subStart, listEnd, srcClosed,
              ctxState, cancelled, addr, snapDom, visited, endedBy,
              sendFailed, cancelledWaiting>>

\* ------------------------------------------------------------- helpers
\* The empty path -> value map.
EmptyMap == [p \in {} |-> "x"]

\* m with path p set to value v.
MapPut(m, p, v) == [q \in (DOMAIN m) \cup {p} |-> IF q = p THEN v ELSE m[q]]

\* Remove key a from the function f.
Without(f, a) == [b \in (DOMAIN f) \ {a} |-> f[b]]

\* utils.MatchWildcardChNameRegexp: the pattern is anchored at both ends and
\* "*" stands for any run of characters.
RECURSIVE MatchWildcard(_, _)
MatchWildcard(pattern, id) ==
    IF pattern = <<>> THEN id = <<>>
    ELSE IF Head(pattern) = "*"
         THEN MatchWildcard(Tail(pattern), id)
              \/ (id # <<>> /\ MatchWildcard(pattern, Tail(id)))
         ELSE id # <<>> /\ Head(id) = Head(pattern)
              /\ MatchWildcard(Tail(pattern), Tail(id))

\* Mutants of WatchOpts: the option is never, or always, added.
WatchOptsNever(r) == {}
WatchOptsAlways(r) == {"replay"}

\* The watch options both change handlers build from the request.
WatchOpts(r) == IF ~r.withoutReplay THEN {"replay"} ELSE {}

\* Store Watch: where in the log a new watch starts delivering.
WatchStart(opts, log) == IF "replay" \in opts THEN 0 ELSE Len(log)

\* Mutants of NetSends: the pattern is compared literally; every change is
\* sent.
NetSendsLiteral(r, id) == r.changeID = id
NetSendsAll(r, id) == TRUE

\* ListNetworkChanges: is the change sent on the stream?
NetSends(r, id) == MatchWildcard(r.changeID, id)

\* Mutant of DevSends: a filter on the change's ID, which lets through the
\* first change created only.
DevSendsFirstOnly(r, id) == id = 1

\* ListDeviceChanges: every change received is sent.
DevSends(r, id) == TRUE

\* Mutant of OpSends: every event is forwarded, whatever its device.
OpSendsAll(r, ev) == TRUE

\* GetOpState: is the live event forwarded?
OpSends(r, ev) == ev.subject = r.deviceId

\* The sequence of events the session's channel is fed from.
Source(s) ==
    CASE req[s].rpc = "net" -> netLog
      [] req[s].rpc = "dev" -> devLog[req[s].key]
      [] req[s].rpc = "op" -> opEvents
      [] OTHER -> <<>>

\* A sender is blocked on the session's channel with the next event.
EventReady(s) == ~srcClosed[s] /\ cursor[s] < Len(Source(s))

\* The handler is at the select statement and has not parked.
Polling(s) == pc[s] = "select"

\* The handler is running (called and not yet returned).
Active(s) == pc[s] \notin {"idle", "done", "panic"}

\* The handler returns v through exit path how; a deferred ctx.Close() runs.
Return(s, v, how) ==
    /\ pc' = [pc EXCEPT ![s] = "done"]
    /\ ret' = [ret EXCEPT ![s] = v]
    /\ endedBy' = [endedBy EXCEPT ![s] = how]
    /\ ctxState' = [ctxState EXCEPT ![s] =
                       IF ctxState[s] = "open" THEN "closed" ELSE @]

\* -------------------------------------------------------------- initial
\* No rollback has been requested.
NoRollback == [name |-> <<>>, ret |-> "none", before |-> <<>>, after |-> <<>>]

\* No snapshot ID is being computed.
NoSnap == [networkID |-> <<>>, deviceID |-> <<>>, id |-> <<>>, got |-> <<>>,
           pc |-> "none"]

\* The absent hint (modelPath = nil), the nil *gnmi.TypedValue and the nil
\* *devicechange.TypedValue.
NoHint == [valueType |-> "none", typeOpts |-> <<>>]
NilWire == [kind |-> "nil", val |-> <<>>]
NilNative == [type |-> "nil", value |-> <<>>, opts |-> <<>>]

\* No value is being converted.
NoCodec == [start |-> "none", hint |-> NoHint, wire |-> NilWire,
            native |-> NilNative, wire2 |-> NilWire, native2 |-> NilNative,
            err |-> "nil", step |-> 0]

\* The empty stores, no listener, no session called.
DiagsInit ==
    /\ netLog = <<>>
    /\ phase = <<>>
    /\ devLog = [k \in DevKeys |-> <<>>]
    /\ devCount = 0
    /\ cache = [d \in Devices |-> EmptyMap]
    /\ opPending = <<>>
    /\ opEvents = <<>>
    /\ listeners = [a \in {} |-> 0]
    /\ req = [s \in Sessions |-> NoReq]
    /\ pc = [s \in Sessions |-> "idle"]
    /\ ret = [s \in Sessions |-> "none"]
    /\ sent = [s \in Sessions |-> <<>>]
    /\ cursor = [s \in Sessions |-> 0]
    /\ subStart = [s \in Sessions |-> 0]
    /\ listEnd = [s \in Sessions |-> 0]
    /\ srcClosed = [s \in Sessions |-> FALSE]
    /\ ctxState = [s \in Sessions |-> "none"]
    /\ cancelled = [s \in Sessions |-> FALSE]
    /\ addr = [s \in Sessions |-> 0]
    /\ snapDom = [s \in Sessions |-> {}]
    /\ visited = [s \in Sessions |-> {}]
    /\ endedBy = [s \in Sessions |-> "none"]
    /\ sendFailed = [s \in Sessions |-> FALSE]
    /\ cancelledWaiting = [s \in Sessions |-> FALSE]
    /\ admin = NoRollback

Init == DiagsInit /\ snap = NoSnap /\ codec = NoCodec

\* ---------------------------------------------------- the environment
\* A NetworkChange is committed to the store.
AppendNetworkChange(id) ==
    /\ Len(netLog) < MaxNetLog
    /\ \A i \in 1..Len(netLog) : netLog[i] # id
    /\ netLog' = Append(netLog, id)
    /\ phase' = Append(phase, "PENDING")
    /\ UNCHANGED <<devLog, devCount, cache, opVars, listeners, sessVars,
                   libVars>>

\* A DeviceChange is committed to the store under its (device, version) key.
AppendDeviceChange(k) ==
    /\ devCount < MaxDevLog
    /\ devCount' = devCount + 1
    /\ devLog' = [devLog EXCEPT ![k] = Append(@, devCount + 1)]
    /\ UNCHANGED <<netLog, phase, cache, opVars, listeners, sessVars,
                   libVars>>

\* The kind of the StateEvent an update of path p of device d raises: ADDED
\* when it creates the cache entry, CHANGED when it overwrites one.
EventKind(d, p) == IF p \in DOMAIN cache[d] THEN "CHANGED" ELSE "ADDED"

\* The synchronizer observes a state update: it writes the cache, then
\* hands the event to the dispatcher.
UpdateOpState(d, p, v) ==
    /\ Len(opEvents) + Len(opPending) < MaxOpEvents
    /\ cache' = [cache EXCEPT ![d] = MapPut(@, p, v)]
    /\ opPending' = Append(opPending, [subject |-> d, path |-> p, value |-> v,
                                       kind |-> EventKind(d, p)])
    /\ UNCHANGED <<netLog, phase, devLog, devCount, opEvents, listeners,
                   sessVars, libVars>>

\* The dispatcher fans the oldest pending event out to every listener.
DispatchOpState ==
    /\ opPending # <<>>
    /\ opEvents' = Append(opEvents, Head(opPending))
    /\ opPending' = Tail(opPending)
    /\ UNCHANGED <<storeVars, libVars, listeners, sessVars>>

\* The caller hangs up or its deadline passes: stream.Context() is done.  A
\* handler parked in select is woken on the Done case.
Cancel(s) ==
    /\ Active(s)
    /\ ~cancelled[s]
    /\ cancelled' = [cancelled EXCEPT ![s] = TRUE]
    /\ pc' = [pc EXCEPT ![s] = IF @ = "wait" THEN "wokenDone" ELSE @]
    /\ cancelledWaiting' = [cancelledWaiting EXCEPT ![s] = (pc[s] = "wait")]
    /\ UNCHANGED <<storeVars, libVars, opVars, listeners, req, ret, sent, cursor,
                   subStart, listEnd, srcClosed, ctxState, addr, snapDom,
                   visited, endedBy, sendFailed>>

\* ------------------------------------------- the store's side of a session
\* The store's List goroutine has delivered the records that existed when
\* List was called and closes the change channel.  Records committed later
\* may or may not have been delivered before it does.
ListClose(s) ==
    /\ req[s].rpc \in {"net", "dev"} /\ ~req[s].subscribe
    /\ Active(s) /\ ~srcClosed[s]
    /\ cursor[s] >= listEnd[s]
    /\ srcClosed' = [srcClosed EXCEPT ![s] = TRUE]
    /\ pc' = [pc EXCEPT ![s] = IF @ = "wait" THEN "wokenClosed" ELSE @]
    /\ UNCHANGED <<storeVars, libVars, opVars, listeners, req, ret, sent, cursor,
                   subStart, listEnd, ctxState, cancelled, addr, snapDom,
                   visited, endedBy, sendFailed, cancelledWaiting>>

\* The store's live-event source shuts down and the watch's event channel is
\* closed.
WatchSourceClose(s) ==
    /\ req[s].rpc \in {"net", "dev"} /\ req[s].subscribe
    /\ Active(s) /\ ~srcClosed[s]
    /\ srcClosed' = [srcClosed EXCEPT ![s] = TRUE]
    /\ pc' = [pc EXCEPT ![s] = IF @ = "wait" THEN "wokenClosed" ELSE @]
    /\ UNCHANGED <<storeVars, libVars, opVars, listeners, req, ret, sent, cursor,
                   subStart, listEnd, ctxState, cancelled, addr, snapDom,
                   visited, endedBy, sendFailed, cancelledWaiting>>

\* ------------------------------------------------------ the gRPC stream
\* stream.Send(msg): ok says whether the transport accepted the message.
Send(s, msg, ok) ==
    /\ sent' = [sent EXCEPT ![s] = IF ok THEN Append(@, msg) ELSE @]
    /\ sendFailed' = [sendFailed EXCEPT ![s] = ~ok]

\* The handler goes round its for loop to the select statement.
Continue(s) ==
    /\ pc' = [pc EXCEPT ![s] = "select"]
    /\ UNCHANGED <<ret, endedBy, ctxState>>

\* select found no case ready: the handler parks until one becomes ready.
Park(s) ==
    /\ Polling(s)
    /\ ~cancelled[s] /\ ~srcClosed[s]
    /\ pc' = [pc EXCEPT ![s] = "wait"]
    /\ UNCHANGED <<storeVars, libVars, opVars, listeners, req, ret, sent, cursor,
                   subStart, listEnd, srcClosed, ctxState, cancelled, addr,
                   snapDom, visited, endedBy, sendFailed, cancelledWaiting>>

\* -------------------------------------------------- ListNetworkChanges
NetReqs ==
    {[rpc |-> "net", subscribe |-> sub, withoutReplay |-> wr, changeID |-> p,
      key |-> <<>>, deviceId |-> ""] :
        sub \in BOOLEAN, wr \in BOOLEAN, p \in Patterns}

\* Mutant of ListNetworkChanges: List is given the watch options too, and
\* without replay it starts after the records in the store.
ListNetworkChangesListOpts(s, r) ==
    /\ pc[s] = "idle"
    /\ req' = [req EXCEPT ![s] = r]
    /\ \E ok \in BOOLEAN :
         IF ok
         THEN /\ cursor' = [cursor EXCEPT ![s] =
                    WatchStart(WatchOpts(r), netLog)]
              /\ subStart' = [subStart EXCEPT ![s] =
                    IF r.subscribe THEN Len(netLog) ELSE 0]
              /\ listEnd' = [listEnd EXCEPT ![s] =
                    IF r.subscribe THEN 0 ELSE Len(netLog)]
              /\ ctxState' = [ctxState EXCEPT ![s] = "open"]
              /\ pc' = [pc EXCEPT ![s] = "select"]
              /\ UNCHANGED <<ret, endedBy>>
         ELSE /\ Return(s, "storeErr", "storeErr")
              /\ UNCHANGED <<cursor, subStart, listEnd>>
    /\ UNCHANGED <<storeVars, libVars, opVars, listeners, sent, srcClosed, cancelled,
                   addr, snapDom, visited, sendFailed, cancelledWaiting>>

\* The call up to the first select: Watch (subscribe) or List on the store.
ListNetworkChanges(s, r) ==
    /\ pc[s] = "idle"
    /\ req' = [req EXCEPT ![s] = r]
    /\ \E ok \in BOOLEAN :
         IF ok
         THEN /\ cursor' = [cursor EXCEPT ![s] =
                    IF r.subscribe THEN WatchStart(WatchOpts(r), netLog) ELSE 0]
              /\ subStart' = [subStart EXCEPT ![s] =
                    IF r.subscribe THEN Len(netLog) ELSE 0]
              /\ listEnd' = [listEnd EXCEPT ![s] =
                    IF r.subscribe THEN 0 ELSE Len(netLog)]
              /\ ctxState' = [ctxState EXCEPT ![s] = "open"]
              /\ pc' = [pc EXCEPT ![s] = "select"]
              /\ UNCHANGED <<ret, endedBy>>
         ELSE /\ Return(s, "storeErr", "storeErr")
              /\ UNCHANGED <<cursor, subStart, listEnd>>
    /\ UNCHANGED <<storeVars, libVars, opVars, listeners, sent, srcClosed, cancelled,
                   addr, snapDom, visited, sendFailed, cancelledWaiting>>

\* Mutant of NetRecv: a matching change is sent twice.
NetRecvResend(s) ==
    /\ req[s].rpc = "net"
    /\ pc[s] \in {"select", "wait"}
    /\ EventReady(s)
    /\ LET change == netLog[cursor[s] + 1] IN
         /\ cursor' = [cursor EXCEPT ![s] = @ + 1]
         /\ sent' = [sent EXCEPT ![s] =
                IF NetSends(req[s], change) THEN @ \o <<change, change>> ELSE @]
         /\ Continue(s)
    /\ UNCHANGED <<storeVars, libVars, opVars, listeners, req, subStart, listEnd,
                   srcClosed, cancelled, addr, snapDom, visited, sendFailed,
                   cancelledWaiting>>

\* case event/change, ok := <-ch with ok: send the change if it matches.
NetRecv(s) ==
    /\ req[s].rpc = "net"
    /\ pc[s] \in {"select", "wait"}
    /\ EventReady(s)
    /\ LET change == netLog[cursor[s] + 1] IN
         /\ cursor' = [cursor EXCEPT ![s] = @ + 1]
         /\ IF NetSends(req[s], change)
            THEN \E ok \in BOOLEAN :
                   /\ Send(s, change, ok)
                   /\ IF ok THEN Continue(s)
                            ELSE Return(s, "sendErr", "sendErr")
            ELSE /\ Continue(s)
                 /\ UNCHANGED <<sent, sendFailed>>
    /\ UNCHANGED <<storeVars, libVars, opVars, listeners, req, subStart, listEnd,
                   srcClosed, cancelled, addr, snapDom, visited,
                   cancelledWaiting>>

\* Mutant of NetClosed: the break leaves the select only, not the loop.
NetClosedNoBreak(s) ==
    /\ req[s].rpc = "net"
    /\ (Polling(s) /\ srcClosed[s]) \/ pc[s] = "wokenClosed"
    /\ pc' = [pc EXCEPT ![s] = "select"]
    /\ UNCHANGED <<storeVars, libVars, opVars, listeners, req, ret, sent, cursor,
                   subStart, listEnd, srcClosed, ctxState, cancelled, addr,
                   snapDom, visited, endedBy, sendFailed, cancelledWaiting>>

\* case event/change, ok := <-ch with !ok: break out of the loop, return nil.
NetClosed(s) ==
    /\ req[s].rpc = "net"
    /\ (Polling(s) /\ srcClosed[s]) \/ pc[s] = "wokenClosed"
    /\ Return(s, "nil", "closed")
    /\ UNCHANGED <<storeVars, libVars, opVars, listeners, req, sent, cursor, subStart,
                   listEnd, srcClosed, cancelled, addr, snapDom, visited,
                   sendFailed, cancelledWaiting>>

\* Mutant of NetDone: the context's error is returned.
NetDoneErr(s) ==
    /\ req[s].rpc = "net"
    /\ (Polling(s) /\ cancelled[s]) \/ pc[s] = "wokenDone"
    /\ Return(s, "cancelErr", "cancel")
    /\ UNCHANGED <<storeVars, libVars, opVars, listeners, req, sent, cursor, subStart,
                   listEnd, srcClosed, cancelled, addr, snapDom, visited,
                   sendFailed, cancelledWaiting>>

\* case <-stream.Context().Done(): return nil.
NetDone(s) ==
    /\ req[s].rpc = "net"
    /\ (Polling(s) /\ cancelled[s]) \/ pc[s] = "wokenDone"
    /\ Return(s, "nil", "cancel")
    /\ UNCHANGED <<storeVars, libVars, opVars, listeners, req, sent, cursor, subStart,
                   listEnd, srcClosed, cancelled, addr, snapDom, visited,
                   sendFailed, cancelledWaiting>>

\* --------------------------------------------------- ListDeviceChanges
DevReqs ==
    {[rpc |-> "dev", subscribe |-> sub, withoutReplay |-> wr,
      changeID |-> <<>>, key |-> k, deviceId |-> ""] :
        sub \in BOOLEAN, wr \in BOOLEAN, k \in DevKeys}

\* The call up to the first select: Watch (subscribe) or List on the store,
\* for the key NewVersionedID(DeviceID, DeviceVersion).
ListDeviceChanges(s, r) ==
    /\ pc[s] = "idle"
    /\ req' = [req EXCEPT ![s] = r]
    /\ \E ok \in BOOLEAN :
         IF ok
         THEN /\ cursor' = [cursor EXCEPT ![s] =
                    IF r.subscribe
                    THEN WatchStart(WatchOpts(r), devLog[r.key]) ELSE 0]
              /\ subStart' = [subStart EXCEPT ![s] =
                    IF r.subscribe THEN Len(devLog[r.key]) ELSE 0]
              /\ listEnd' = [listEnd EXCEPT ![s] =
                    IF r.subscribe THEN 0 ELSE Len(devLog[r.key])]
              /\ ctxState' = [ctxState EXCEPT ![s] = "open"]
              /\ pc' = [pc EXCEPT ![s] = "select"]
              /\ UNCHANGED <<ret, endedBy>>
         ELSE /\ Return(s, "storeErr", "storeErr")
              /\ UNCHANGED <<cursor, subStart, listEnd>>
    /\ UNCHANGED <<storeVars, libVars, opVars, listeners, sent, srcClosed, cancelled,
                   addr, snapDom, visited, sendFailed, cancelledWaiting>>

\* Mutant of DevRecv: a send error is logged and the loop goes on.
DevRecvSwallow(s) ==
    /\ req[s].rpc = "dev"
    /\ pc[s] \in {"select", "wait"}
    /\ EventReady(s)
    /\ LET change == devLog[req[s].key][cursor[s] + 1] IN
         /\ cursor' = [cursor EXCEPT ![s] = @ + 1]
         /\ \E ok \in BOOLEAN : Send(s, change, ok)
         /\ Continue(s)
    /\ UNCHANGED <<storeVars, libVars, opVars, listeners, req, subStart, listEnd,
                   srcClosed, cancelled, addr, snapDom, visited,
                   cancelledWaiting>>

\* case event/change, ok := <-ch with ok: send the change.
DevRecv(s) ==
    /\ req[s].rpc = "dev"
    /\ pc[s] \in {"select", "wait"}
    /\ EventReady(s)
    /\ LET change == devLog[req[s].key][cursor[s] + 1] IN
         /\ cursor' = [cursor EXCEPT ![s] = @ + 1]
         /\ IF DevSends(req[s], change)
            THEN \E ok \in BOOLEAN :
                   /\ Send(s, change, ok)
                   /\ IF ok THEN Continue(s)
                            ELSE Return(s, "sendErr", "sendErr")
            ELSE /\ Continue(s)
                 /\ UNCHANGED <<sent, sendFailed>>
    /\ UNCHANGED <<storeVars, libVars, opVars, listeners, req, subStart, listEnd,
                   srcClosed, cancelled, addr, snapDom, visited,
                   cancelledWaiting>>

\* case event/change, ok := <-ch with !ok: break out of the loop, return nil.
DevClosed(s) ==
    /\ req[s].rpc = "dev"
    /\ (Polling(s) /\ srcClosed[s]) \/ pc[s] = "wokenClosed"
    /\ Return(s, "nil", "closed")
    /\ UNCHANGED <<storeVars, libVars, opVars, listeners, req, sent, cursor, subStart,
                   listEnd, srcClosed, cancelled, addr, snapDom, visited,
                   sendFailed, cancelledWaiting>>

\* case <-stream.Context().Done(): return nil.
DevDone(s) ==
    /\ req[s].rpc = "dev"
    /\ (Polling(s) /\ cancelled[s]) \/ pc[s] = "wokenDone"
    /\ Return(s, "nil", "cancel")
    /\ UNCHANGED <<storeVars, libVars, opVars, listeners, req, sent, cursor, subStart,
                   listEnd, srcClosed, cancelled, addr, snapDom, visited,
                   sendFailed, cancelledWaiting>>

\* ----------------------------------------------------------- GetOpState
OpReqs ==
    {[rpc |-> "op", subscribe |-> sub, withoutReplay |-> FALSE,
      changeID |-> <<>>, key |-> <<>>, deviceId |-> d] :
        sub \in BOOLEAN, d \in ReqDevices}

\* Addresses at which a new stream object can be allocated: those of no
\* stream that is still in use.
FreeAddrs == {a \in Addrs : \A t \in Sessions : Active(t) => addr[t] # a}

\* Mutant of CacheLookup: a cache that holds no path counts as no cache.
CacheLookupNonEmpty(r) ==
    r.deviceId \in DOMAIN cache /\ cache[r.deviceId] # EmptyMap

\* deviceCache, ok := OperationalStateCache[r.DeviceId]: the value of ok.
CacheLookup(r) == r.deviceId \in DOMAIN cache

\* The cache lookup that opens the call.  deviceCache is a reference to the
\* device's map, so the range loop reads the map as it is at each step.
GetOpState(s, r) ==
    /\ pc[s] = "idle"
    /\ req' = [req EXCEPT ![s] = r]
    /\ IF CacheLookup(r)
       THEN /\ pc' = [pc EXCEPT ![s] = "snap"]
            /\ snapDom' = [snapDom EXCEPT ![s] = DOMAIN cache[r.deviceId]]
            /\ \E a \in (IF r.subscribe THEN FreeAddrs ELSE {0}) :
                 addr' = [addr EXCEPT ![s] = a]
            /\ UNCHANGED <<ret, endedBy, ctxState>>
       ELSE /\ Return(s, "noCacheErr", "noCache")
            /\ UNCHANGED <<snapDom, addr>>
    /\ UNCHANGED <<storeVars, libVars, opVars, listeners, sent, cursor, subStart,
                   listEnd, srcClosed, cancelled, visited, sendFailed,
                   cancelledWaiting>>

\* Mutant of OpSnapshotSend: the message is built from the loop variable of
\* another iteration, so a path goes out with another path's value.
OpSnapshotSendAliased(s) ==
    /\ req[s].rpc = "op" /\ pc[s] = "snap"
    /\ \E p \in (DOMAIN cache[req[s].deviceId]) \ visited[s] :
         /\ visited' = [visited EXCEPT ![s] = @ \cup {p}]
         /\ \E q \in DOMAIN cache[req[s].deviceId], ok \in BOOLEAN :
              /\ Send(s, [type |-> "NONE", path |-> p,
                          value |-> cache[req[s].deviceId][q]], ok)
              /\ IF ok THEN UNCHANGED <<pc, ret, endedBy, ctxState>>
                       ELSE Return(s, "sendErr", "sendErr")
    /\ UNCHANGED <<storeVars, libVars, opVars, listeners, req, cursor, subStart,
                   listEnd, srcClosed, cancelled, addr, snapDom,
                   cancelledWaiting>>

\* One iteration of the range loop over deviceCache: send the entry with
\* type NONE.
OpSnapshotSend(s) ==
    /\ req[s].rpc = "op" /\ pc[s] = "snap"
    /\ \E p \in (DOMAIN cache[req[s].deviceId]) \ visited[s] :
         /\ visited' = [visited EXCEPT ![s] = @ \cup {p}]
         /\ \E ok \in BOOLEAN :
              /\ Send(s, [type |-> "NONE", path |-> p,
                          value |-> cache[req[s].deviceId][p]], ok)
              /\ IF ok THEN UNCHANGED <<pc, ret, endedBy, ctxState>>
                       ELSE Return(s, "sendErr", "sendErr")
    /\ UNCHANGED <<storeVars, libVars, opVars, listeners, req, cursor, subStart,
                   listEnd, srcClosed, cancelled, addr, snapDom,
                   cancelledWaiting>>

\* Mutant of OpSnapshotEnd: the listener is registered whether or not the
\* request subscribes.
OpSnapshotEndAlwaysRegisters(s) ==
    /\ req[s].rpc = "op" /\ pc[s] = "snap"
    /\ snapDom[s] \subseteq visited[s]
    /\ IF addr[s] \in DOMAIN listeners
       THEN /\ Return(s, "regErr", "regErr")
            /\ UNCHANGED <<listeners, cursor, subStart>>
       ELSE /\ listeners' = [a \in (DOMAIN listeners) \cup {addr[s]} |->
                                IF a = addr[s] THEN s ELSE listeners[a]]
            /\ cursor' = [cursor EXCEPT ![s] = Len(opEvents)]
            /\ subStart' = [subStart EXCEPT ![s] = Len(opEvents)]
            /\ IF req[s].subscribe THEN Continue(s)
                                   ELSE Return(s, "nil", "noSubscribe")
    /\ UNCHANGED <<storeVars, libVars, opVars, req, sent, listEnd, srcClosed,
                   cancelled, addr, snapDom, visited, sendFailed,
                   cancelledWaiting>>

\* Mutant of OpSnapshotEnd: the error of RegisterOpState is dropped and the
\* handler takes over the registration that is there.
OpSnapshotEndIgnoresErr(s) ==
    /\ req[s].rpc = "op" /\ pc[s] = "snap"
    /\ snapDom[s] \subseteq visited[s]
    /\ IF ~req[s].subscribe
       THEN /\ Return(s, "nil", "noSubscribe")
            /\ UNCHANGED <<listeners, cursor, subStart>>
       ELSE /\ listeners' = [a \in (DOMAIN listeners) \cup {addr[s]} |->
                                IF a = addr[s] THEN s ELSE listeners[a]]
            /\ cursor' = [cursor EXCEPT ![s] = Len(opEvents)]
            /\ subStart' = [subStart EXCEPT ![s] = Len(opEvents)]
            /\ Continue(s)
    /\ UNCHANGED <<storeVars, libVars, opVars, req, sent, listEnd, srcClosed,
                   cancelled, addr, snapDom, visited, sendFailed,
                   cancelledWaiting>>

\* The range loop ends (every entry present when it began has been produced).
\* Without subscribe the handler returns nil; with subscribe it registers
\* the listener "diags-%p" with the dispatcher.
OpSnapshotEnd(s) ==
    /\ req[s].rpc = "op" /\ pc[s] = "snap"
    /\ snapDom[s] \subseteq visited[s]
    /\ IF ~req[s].subscribe
       THEN /\ Return(s, "nil", "noSubscribe")
            /\ UNCHANGED <<listeners, cursor, subStart>>
       ELSE IF addr[s] \in DOMAIN listeners
       THEN /\ Return(s, "regErr", "regErr")
            /\ UNCHANGED <<listeners, cursor, subStart>>
       ELSE /\ listeners' = [a \in (DOMAIN listeners) \cup {addr[s]} |->
                                IF a = addr[s] THEN s ELSE listeners[a]]
            /\ cursor' = [cursor EXCEPT ![s] = Len(opEvents)]
            /\ subStart' = [subStart EXCEPT ![s] = Len(opEvents)]
            /\ Continue(s)
    /\ UNCHANGED <<storeVars, libVars, opVars, req, sent, listEnd, srcClosed,
                   cancelled, addr, snapDom, visited, sendFailed,
                   cancelledWaiting>>

\* Mutant of OpRecv: the message carries the kind of the event.
OpRecvEventKind(s) ==
    /\ req[s].rpc = "op"
    /\ pc[s] \in {"select", "wait"}
    /\ EventReady(s)
    /\ LET ev == opEvents[cursor[s] + 1] IN
         /\ cursor' = [cursor EXCEPT ![s] = @ + 1]
         /\ IF OpSends(req[s], ev)
            THEN \E ok \in BOOLEAN :
                   /\ Send(s, [type |-> ev.kind, path |-> ev.path,
                               value |-> ev.value], ok)
                   /\ IF ok THEN Continue(s)
                            ELSE Return(s, "sendErr", "sendErr")
            ELSE /\ Continue(s)
                 /\ UNCHANGED <<sent, sendFailed>>
    /\ UNCHANGED <<storeVars, libVars, opVars, listeners, req, subStart, listEnd,
                   srcClosed, cancelled, addr, snapDom, visited,
                   cancelledWaiting>>

\* case opStateEvent := <-listener: forward the event with type ADDED if it
\* is for the requested device, otherwise ignore it.
OpRecv(s) ==
    /\ req[s].rpc = "op"
    /\ pc[s] \in {"select", "wait"}
    /\ EventReady(s)
    /\ LET ev == opEvents[cursor[s] + 1] IN
         /\ cursor' = [cursor EXCEPT ![s] = @ + 1]
         /\ IF OpSends(req[s], ev)
            THEN \E ok \in BOOLEAN :
                   /\ Send(s, [type |-> "ADDED", path |-> ev.path,
                               value |-> ev.value], ok)
                   /\ IF ok THEN Continue(s)
                            ELSE Return(s, "sendErr", "sendErr")
            ELSE /\ Continue(s)
                 /\ UNCHANGED <<sent, sendFailed>>
    /\ UNCHANGED <<storeVars, libVars, opVars, listeners, req, subStart, listEnd,
                   srcClosed, cancelled, addr, snapDom, visited,
                   cancelledWaiting>>

\* Dispatcher.UnregisterOperationalState(streamID): drop the registration and
\* close its channel; a no-op for an unknown streamID.
Unregister(a) ==
    IF a \in DOMAIN listeners
    THEN /\ listeners' = Without(listeners, a)
         /\ srcClosed' = [srcClosed EXCEPT ![listeners[a]] = TRUE]
    ELSE UNCHANGED <<listeners, srcClosed>>

\* case <-stream.Context().Done(): unregister the listener, return nil.
OpDone(s) ==
    /\ req[s].rpc = "op"
    /\ (Polling(s) /\ cancelled[s]) \/ pc[s] = "wokenDone"
    /\ Unregister(addr[s])
    /\ Return(s, "nil", "cancel")
    /\ UNCHANGED <<storeVars, libVars, opVars, req, sent, cursor, subStart, listEnd,
                   cancelled, addr, snapDom, visited, sendFailed,
                   cancelledWaiting>>

\* case opStateEvent := <-listener on a closed channel: the receive yields
\* the zero value at once.  Calling Subject() on it panics (nil interface)
\* or yields a subject that is not the requested device, and the loop goes
\* round again; the handler has no exit for this case.
OpClosed(s) ==
    /\ req[s].rpc = "op"
    /\ (Polling(s) /\ srcClosed[s]) \/ pc[s] = "wokenClosed"
    /\ \E next \in {"panic", "select"} : pc' = [pc EXCEPT ![s] = next]
    /\ UNCHANGED <<storeVars, libVars, opVars, listeners, req, ret, sent, cursor,
                   subStart, listEnd, srcClosed, ctxState, cancelled, addr,
                   snapDom, visited, endedBy, sendFailed, cancelledWaiting>>

\* The dispatcher's side drops a registration (shutdown, or another caller
\* of UnregisterOperationalState): the listener's channel is closed.
DispatcherUnregister(a) ==
    /\ a \in DOMAIN listeners
    /\ Unregister(a)
    /\ pc' = [pc EXCEPT ![listeners[a]] =
                 IF @ = "wait" THEN "wokenClosed" ELSE @]
    /\ UNCHANGED <<storeVars, libVars, opVars, req, ret, sent, cursor, subStart,
                   listEnd, ctxState, cancelled, addr, snapDom, visited,
                   endedBy, sendFailed, cancelledWaiting>>

\* ------------------------------------------------------- specification
\* The three services share no state: ListNetworkChanges touches only the
\* network-change store, ListDeviceChanges only the device-change store and
\* GetOpState only the cache and the dispatcher.  A behaviour therefore
\* exercises one service; interleaving different services adds nothing to
\* what any one handler can observe.
NetQuiet == netLog = <<>> /\ \A s \in Sessions : req[s].rpc # "net"
DevQuiet == devCount = 0 /\ \A s \in Sessions : req[s].rpc # "dev"
OpQuiet ==
    /\ opPending = <<>> /\ opEvents = <<>>
    /\ \A s \in Sessions : req[s].rpc # "op"
OnlyNet == DevQuiet /\ OpQuiet
OnlyDev == NetQuiet /\ OpQuiet
OnlyOp == NetQuiet /\ DevQuiet

\* Every step of the system in which the sessions in S take part.
Steps(S) ==
    \/ \E id \in ChangeIDs : OnlyNet /\ AppendNetworkChange(id)
    \/ \E k \in DevKeys : OnlyDev /\ AppendDeviceChange(k)
    \/ \E u \in Updates : OnlyOp /\ UpdateOpState(u[1], u[2], u[3])
    \/ DispatchOpState
    \/ \E a \in Addrs : DispatcherUnregister(a)
    \/ \E s \in S, r \in NetReqs : OnlyNet /\ ListNetworkChanges(s, r)
    \/ \E s \in S, r \in DevReqs : OnlyDev /\ ListDeviceChanges(s, r)
    \/ \E s \in S, r \in OpReqs : OnlyOp /\ GetOpState(s, r)
    \/ \E s \in S : Cancel(s)
    \/ \E s \in S : ListClose(s)
    \/ \E s \in S : WatchSourceClose(s)
    \/ \E s \in S : Park(s)
    \/ \E s \in S : NetRecv(s)
    \/ \E s \in S : NetClosed(s)
    \/ \E s \in S : NetDone(s)
    \/ \E s \in S : DevRecv(s)
    \/ \E s \in S : DevClosed(s)
    \/ \E s \in S : DevDone(s)
    \/ \E s \in S : OpSnapshotSend(s)
    \/ \E s \in S : OpSnapshotEnd(s)
    \/ \E s \in S : OpRecv(s)
    \/ \E s \in S : OpClosed(s)
    \/ \E s \in S : OpDone(s)

\* One session against its service and that service's writers.
Next == Steps({1})

Spec == Init /\ [][Next]_vars

\* The Go scheduler runs every runnable goroutine: a handler that can take a
\* step of its loop does, and the store's List goroutine closes the change
\* channel once its scan is over.  Callers, appenders and devices are under
\* no obligation to act.
Fairness ==
    \A s \in {1} :
       /\ WF_vars(ListClose(s))
       /\ WF_vars(NetRecv(s)) /\ WF_vars(NetClosed(s)) /\ WF_vars(NetDone(s))
       /\ WF_vars(DevRecv(s)) /\ WF_vars(DevClosed(s)) /\ WF_vars(DevDone(s))
       /\ WF_vars(OpSnapshotSend(s)) /\ WF_vars(OpSnapshotEnd(s))
       /\ WF_vars(OpRecv(s)) /\ WF_vars(OpClosed(s)) /\ WF_vars(OpDone(s))

FairSpec == Spec /\ Fairness

\* Two concurrent subscribe-mode sessions of a change service and the
\* appenders of its store.  The sessions are interchangeable, so session 2
\* is called after session 1.  Whether a handler polls or parks makes no
\* difference to what it receives, so here every handler polls.
SubscribeReqs(R) == {r \in R : r.subscribe}
CalledBefore(s) == \A t \in Sessions : t < s => pc[t] # "idle"

WatchNext ==
    \/ \E id \in ChangeIDs : OnlyNet /\ AppendNetworkChange(id)
    \/ \E k \in DevKeys : OnlyDev /\ AppendDeviceChange(k)
    \/ \E s \in Sessions, r \in SubscribeReqs(NetReqs) :
          OnlyNet /\ CalledBefore(s) /\ ListNetworkChanges(s, r)
    \/ \E s \in Sessions, r \in SubscribeReqs(DevReqs) :
          OnlyDev /\ CalledBefore(s) /\ ListDeviceChanges(s, r)
    \/ \E s \in Sessions : Cancel(s)
    \/ \E s \in Sessions : WatchSourceClose(s)
    \/ \E s \in Sessions : NetRecv(s)
    \/ \E s \in Sessions : NetClosed(s)
    \/ \E s \in Sessions : NetDone(s)
    \/ \E s \in Sessions : DevRecv(s)
    \/ \E s \in Sessions : DevClosed(s)
    \/ \E s \in Sessions : DevDone(s)

SpecWatch == Init /\ [][WatchNext]_vars

\* Two GetOpState sessions on two streams, the second called after the
\* first has returned: they share the dispatcher's listener table, and the
\* second stream may be allocated at the address of the first.  The first
\* session subscribes.  Beside them, as in Spec, one session of a change
\* service.  Every handler polls; the callers of GetOpState do not hang up
\* and the dispatcher drops no registration of its own accord (Spec covers
\* both).
CalledAfter(s) == \A t \in Sessions : t < s => pc[t] = "done"

ReuseNext ==
    \/ \E id \in ChangeIDs : OnlyNet /\ AppendNetworkChange(id)
    \/ \E k \in DevKeys : OnlyDev /\ AppendDeviceChange(k)
    \/ \E u \in Updates : OnlyOp /\ UpdateOpState(u[1], u[2], u[3])
    \/ DispatchOpState
    \/ \E r \in NetReqs : OnlyNet /\ ListNetworkChanges(1, r)
    \/ \E r \in DevReqs : OnlyDev /\ ListDeviceChanges(1, r)
    \/ \E s \in Sessions, r \in OpReqs :
          /\ OnlyOp /\ CalledAfter(s) /\ (s = 1 => r.subscribe)
          /\ GetOpState(s, r)
    \/ req[1].rpc # "op" /\ Cancel(1)
    \/ ListClose(1)
    \/ WatchSourceClose(1)
    \/ NetRecv(1)
    \/ NetClosed(1)
    \/ NetDone(1)
    \/ DevRecv(1)
    \/ DevClosed(1)
    \/ DevDone(1)
    \/ \E s \in Sessions : OpSnapshotSend(s)
    \/ \E s \in Sessions : OpSnapshotEnd(s)
    \/ \E s \in Sessions : OpRecv(s)

SpecReuse == Init /\ [][ReuseNext]_vars

\* ------------------------------------------------ RollbackNetworkChange
\* The names a RollbackRequest carries: a change's ID, or the empty name.
RollbackNames == ChangeIDs \cup {<<>>}

\* The phases that follow phase p while a change is being applied.
ApplyPhases(p) ==
    CASE p = "PENDING" -> {"APPLYING"}
      [] p = "APPLYING" -> {"APPLIED", "FAILED"}
      [] OTHER -> {}

\* The position in the store of the change called name (0: no such change).
IndexOf(name) ==
    IF \E i \in 1..Len(netLog) : netLog[i] = name
    THEN CHOOSE i \in 1..Len(netLog) : netLog[i] = name
    ELSE 0

\* The position of the most recent change that is APPLIED (0: none is).
LastApplied ==
    IF \E i \in 1..Len(phase) : phase[i] = "APPLIED"
    THEN CHOOSE i \in 1..Len(phase) :
            /\ phase[i] = "APPLIED"
            /\ \A j \in (i + 1)..Len(phase) : phase[j] # "APPLIED"
    ELSE 0

\* Mutant of RollbackResult: any APPLIED change can be rolled back.
RollbackResultAnyApplied(name) ==
    IF name = <<>> THEN "emptyName"
    ELSE IF IndexOf(name) = 0 THEN "notFound"
    ELSE IF phase[IndexOf(name)] # "APPLIED" THEN "notApplied"
    ELSE "ok"

\* Mutant of RollbackResult: a name that is not found falls through to the
\* ordering check.
RollbackResultNoLookup(name) ==
    IF IndexOf(name) = 0 \/ IndexOf(name) # LastApplied THEN "notMostRecent"
    ELSE "ok"

\* The outcome of a rollback request: the constraint it fails, or ok.
RollbackResult(name) ==
    IF name = <<>> THEN "emptyName"
    ELSE IF IndexOf(name) = 0 THEN "notFound"
    ELSE IF phase[IndexOf(name)] # "APPLIED" THEN "notApplied"
    ELSE IF IndexOf(name) # LastApplied THEN "notMostRecent"
    ELSE "ok"

\* RollbackNetworkChange(name): an eligible change starts rolling back; any
\* other request is refused and the store is left as it was.
RollbackNetworkChange(name) ==
    /\ LET r == RollbackResult(name)
           after == IF r = "ok" /\ IndexOf(name) > 0
                    THEN [phase EXCEPT ![IndexOf(name)] = "ROLLING_BACK"]
                    ELSE phase
       IN  /\ phase' = after
           /\ admin' = [name |-> name, ret |-> r, before |-> phase,
                        after |-> after]
    /\ UNCHANGED <<netLog, devLog, devCount, cache, opVars, listeners,
                   req, pc, ret, sent, cursor, subStart, listEnd, srcClosed,
                   ctxState, cancelled, addr, snapDom, visited, endedBy,
                   sendFailed, cancelledWaiting, snap, codec>>

\* The change at position i moves on through PENDING, APPLYING and APPLIED
\* or FAILED.
ApplyAdvance(i) ==
    /\ i \in 1..Len(phase)
    /\ \E next \in ApplyPhases(phase[i]) : phase' = [phase EXCEPT ![i] = next]
    /\ UNCHANGED <<netLog, devLog, devCount, cache, opVars, listeners,
                   sessVars, libVars>>

\* The rollback of the change at position i completes.
RollbackComplete(i) ==
    /\ i \in 1..Len(phase)
    /\ phase[i] = "ROLLING_BACK"
    /\ phase' = [phase EXCEPT ![i] = "ROLLED_BACK"]
    /\ UNCHANGED <<netLog, devLog, devCount, cache, opVars, listeners,
                   sessVars, libVars>>

AdminNext ==
    \/ \E id \in ChangeIDs : AppendNetworkChange(id)
    \/ \E i \in 1..MaxNetLog : ApplyAdvance(i)
    \/ \E i \in 1..MaxNetLog : RollbackComplete(i)
    \/ \E name \in RollbackNames : RollbackNetworkChange(name)

\* The store carries a rollback it has started through to its end.
SpecAdmin ==
    /\ Init /\ [][AdminNext]_vars
    /\ \A i \in 1..MaxNetLog : WF_vars(RollbackComplete(i))

\* ------------------------------------------------------------ snapshot ID
\* The characters identifiers are made of.
Chars == {"a", "b", ":"}

\* The strings of at most n characters.
RECURSIVE Strings(_)
Strings(n) ==
    IF n = 0 THEN {<<>>}
    ELSE Strings(n - 1) \cup
         {Append(w, c) : w \in {v \in Strings(n - 1) : Len(v) = n - 1},
                         c \in Chars}

separator == <<":">>

\* strings.Index(str, sub): the 0-based position of the first occurrence of
\* sub in str, or -1.
Index(str, sub) ==
    LET at == {i \in 0..(Len(str) - Len(sub)) :
                  SubSeq(str, i + 1, i + Len(sub)) = sub}
    IN  IF at = {} THEN -1 ELSE CHOOSE i \in at : \A j \in at : i <= j

\* GetSnapshotID: fmt.Sprintf("%s%s%s", networkID, separator, deviceID).
GetSnapshotID(networkID, deviceID) == networkID \o separator \o deviceID

\* Mutant of GetDeviceID: the slice starts after the last separator.
GetDeviceIDAfterLast(i) ==
    LET at == {k \in 1..Len(i) : <<i[k]>> = separator}
    IN  IF at = {} THEN i
        ELSE SubSeq(i, (CHOOSE k \in at : \A j \in at : j <= k) + 1, Len(i))

\* Mutant of GetDeviceID: the slice starts at the separator, not after it.
GetDeviceIDFromSeparator(i) ==
    IF Index(i, separator) < 0 THEN i
    ELSE SubSeq(i, Index(i, separator) + 1, Len(i))

\* ID.GetDeviceID: string(i)[strings.Index(string(i), separator)+1:].
GetDeviceID(i) == SubSeq(i, (Index(i, separator) + 1) + 1, Len(i))

\* A snapshot ID is to be made of any network ID and device ID, or the
\* device ID is to be read from an ID given as it is.
SnapInit ==
    /\ DiagsInit /\ codec = NoCodec
    /\ snap \in {[networkID |-> n, deviceID |-> d, id |-> <<>>, got |-> <<>>,
                  pc |-> "start"] : n \in Strings(MaxIdLen),
                                     d \in Strings(MaxIdLen)}
             \cup {[networkID |-> <<>>, deviceID |-> <<>>, id |-> i,
                    got |-> <<>>, pc |-> "given"] : i \in Strings(MaxIdLen)}

SnapGetSnapshotID ==
    /\ snap.pc = "start"
    /\ snap' = [snap EXCEPT !.id = GetSnapshotID(snap.networkID, snap.deviceID),
                            !.pc = "made"]
    /\ UNCHANGED <<storeVars, opVars, listeners, sessVars, admin, codec>>

SnapGetDeviceID ==
    /\ snap.pc = "made"
    /\ snap' = [snap EXCEPT !.got = GetDeviceID(snap.id), !.pc = "got"]
    /\ UNCHANGED <<storeVars, opVars, listeners, sessVars, admin, codec>>

\* GetDeviceID of an ID that GetSnapshotID need not have made.
SnapGetDeviceIDOfGiven ==
    /\ snap.pc = "given"
    /\ snap' = [snap EXCEPT !.got = GetDeviceID(snap.id), !.pc = "read"]
    /\ UNCHANGED <<storeVars, opVars, listeners, sessVars, admin, codec>>

SnapNext == SnapGetSnapshotID \/ SnapGetDeviceID \/ SnapGetDeviceIDOfGiven

SpecSnap == SnapInit /\ [][SnapNext]_vars

\* ------------------------------------------------------------------ codec
\* gnmi.TypedValue: the scalar kinds of its Value, and the payloads tried
\* for each.  A text is a sequence of code points; a float is written in
\* thousandths; a decimal is <<digits, precision>>.
ScalarKinds == {"string_val", "ascii_val", "int_val", "uint_val", "bool_val",
                "bytes_val", "float_val", "decimal_val"}
Texts == {<<>>, <<97>>, <<233>>}
ByteStrings == {<<>>, <<1>>, <<1, 2>>}
ScalarVals(kind) ==
    CASE kind \in {"string_val", "ascii_val"} -> Texts
      [] kind = "int_val" -> {-300, -1, 0, 300}
      [] kind = "uint_val" -> {0, 1, 300}
      [] kind = "bool_val" -> BOOLEAN
      [] kind = "bytes_val" -> ByteStrings
      [] kind = "float_val" -> {1000, 1234}
      [] kind = "decimal_val" -> {<<1234, 2>>, <<1234, 0>>, <<-6, 0>>}

ScalarsOf(kind) == {[kind |-> kind, val |-> v] : v \in ScalarVals(kind)}

\* The leaf-lists of one to MaxListLen elements of one kind.
LeaflistsOf(kind) ==
    {[kind |-> "leaflist_val", val |-> l] :
        l \in UNION {[1..n -> ScalarsOf(kind)] : n \in 1..MaxListLen}}

\* The wire values tried: every scalar, every leaf-list, the empty value and
\* a value of a kind the codec does not know.
WireValues ==
    UNION {ScalarsOf(k) \cup LeaflistsOf(k) : k \in ScalarKinds}
       \cup {[kind |-> "any_val", val |-> <<>>],
             [kind |-> "json_val", val |-> <<>>]}

\* devicechange.Width and the hints a model path gives: a value type and,
\* in TypeOpts, a width.
Widths == {8, 16, 32, 64}
WidthSixtyFour == 64
Hints ==
    {NoHint} \cup
    {[valueType |-> vt, typeOpts |-> o] :
        vt \in {"INT", "UINT"}, o \in {<<>>} \cup {<<w>> : w \in Widths}}

\* devicechange.TypedValue and its constructors: Type, the payload and
\* TypeOpts.
NewTypedValueEmpty == [type |-> "EMPTY", value |-> <<>>, opts |-> <<>>]
NewTypedValueString(text) == [type |-> "STRING", value |-> text, opts |-> <<>>]
NewTypedValueInt(n, width) == [type |-> "INT", value |-> n, opts |-> <<width>>]
NewTypedValueUint(n, width) ==
    [type |-> "UINT", value |-> n, opts |-> <<width>>]
NewTypedValueBool(b) == [type |-> "BOOL", value |-> b, opts |-> <<>>]
NewTypedValueBytes(b) == [type |-> "BYTES", value |-> b, opts |-> <<>>]
NewTypedValueFloat(f) == [type |-> "FLOAT", value |-> f, opts |-> <<>>]
NewTypedValueDecimal(digits, precision) ==
    [type |-> "DECIMAL", value |-> digits, opts |-> <<precision>>]

ScalarTypes == {"STRING", "INT", "UINT", "BOOL", "BYTES", "FLOAT", "DECIMAL"}
ListTypes == {"LEAFLIST_STRING", "LEAFLIST_INT", "LEAFLIST_UINT",
              "LEAFLIST_BOOL", "LEAFLIST_BYTES", "LEAFLIST_FLOAT",
              "LEAFLIST_DECIMAL"}
ValueTypes == {"EMPTY"} \cup ScalarTypes \cup ListTypes

\* The leaf-list type of an element type, and back.
ListTypeOf(type) ==
    CASE type = "STRING" -> "LEAFLIST_STRING"
      [] type = "INT" -> "LEAFLIST_INT"
      [] type = "UINT" -> "LEAFLIST_UINT"
      [] type = "BOOL" -> "LEAFLIST_BOOL"
      [] type = "BYTES" -> "LEAFLIST_BYTES"
      [] type = "FLOAT" -> "LEAFLIST_FLOAT"
      [] type = "DECIMAL" -> "LEAFLIST_DECIMAL"
ElementTypeOf(type) == CHOOSE e \in ScalarTypes : ListTypeOf(e) = type

\* Mutant of DecodeWidth: the hint is ignored.
DecodeWidthIgnoresHint(modelPath) == WidthSixtyFour

\* The width a decoded integer gets: the hint's, or the widest.
DecodeWidth(modelPath) ==
    IF Len(modelPath.typeOpts) > 0 THEN modelPath.typeOpts[1]
    ELSE WidthSixtyFour

\* Mutant of DecodeScalar: a decimal keeps its digits and loses its
\* precision.
DecodeScalarDropsPrecision(w, modelPath) ==
    CASE w.kind \in {"string_val", "ascii_val"} -> NewTypedValueString(w.val)
      [] w.kind = "int_val" -> NewTypedValueInt(w.val, DecodeWidth(modelPath))
      [] w.kind = "uint_val" -> NewTypedValueUint(w.val, DecodeWidth(modelPath))
      [] w.kind = "bool_val" -> NewTypedValueBool(w.val)
      [] w.kind = "bytes_val" -> NewTypedValueBytes(w.val)
      [] w.kind = "float_val" -> NewTypedValueFloat(w.val)
      [] w.kind = "decimal_val" -> NewTypedValueDecimal(w.val[1], 0)

\* The TypedValue of a scalar wire value.  An Ascii value becomes a String
\* value; an integer takes its value from the wire and its width from the
\* hint.
DecodeScalar(w, modelPath) ==
    CASE w.kind = "string_val" -> NewTypedValueString(w.val)
      [] w.kind = "ascii_val" -> NewTypedValueString(w.val)
      [] w.kind = "int_val" -> NewTypedValueInt(w.val, DecodeWidth(modelPath))
      [] w.kind = "uint_val" -> NewTypedValueUint(w.val, DecodeWidth(modelPath))
      [] w.kind = "bool_val" -> NewTypedValueBool(w.val)
      [] w.kind = "bytes_val" -> NewTypedValueBytes(w.val)
      [] w.kind = "float_val" -> NewTypedValueFloat(w.val)
      [] w.kind = "decimal_val" -> NewTypedValueDecimal(w.val[1], w.val[2])

\* The TypedValue of a leaf-list: each element decoded as a scalar; the
\* list keeps the elements' payloads in order and, in TypeOpts, the width
\* of its integers or the precision of each of its decimals.
handleLeafList(w, modelPath) ==
    LET elems == [i \in 1..Len(w.val) |-> DecodeScalar(w.val[i], modelPath)]
        elemType == elems[1].type
    IN  [type |-> ListTypeOf(elemType),
         value |-> [i \in 1..Len(elems) |-> elems[i].value],
         opts |-> CASE elemType \in {"INT", "UINT"} -> elems[1].opts
                    [] elemType = "DECIMAL" ->
                          [i \in 1..Len(elems) |-> elems[i].opts[1]]
                    [] OTHER -> <<>>]

\* GnmiTypedValueToNativeType(gnmiTv, modelPath): the TypedValue and the
\* error.
GnmiTypedValueToNativeType(gnmiTv, modelPath) ==
    CASE gnmiTv.kind \in ScalarKinds ->
            [v |-> DecodeScalar(gnmiTv, modelPath), err |-> "nil"]
      [] gnmiTv.kind = "leaflist_val" ->
            [v |-> handleLeafList(gnmiTv, modelPath), err |-> "nil"]
      [] gnmiTv.kind = "any_val" -> [v |-> NewTypedValueEmpty, err |-> "nil"]
      [] OTHER -> [v |-> NilNative, err |-> "UnsupportedWireType"]

\* The wire kind a value type is written as.
WireKindOf(type) ==
    CASE type = "STRING" -> "string_val"
      [] type = "INT" -> "int_val"
      [] type = "UINT" -> "uint_val"
      [] type = "BOOL" -> "bool_val"
      [] type = "BYTES" -> "bytes_val"
      [] type = "FLOAT" -> "float_val"
      [] type = "DECIMAL" -> "decimal_val"

\* The scalar wire value of a payload of the given type; opt is the
\* precision of a decimal.
EncodeScalar(type, payload, opt) ==
    [kind |-> WireKindOf(type),
     val |-> IF type = "DECIMAL" THEN <<payload, opt>> ELSE payload]

\* The wire value of a well-formed TypedValue.
EncodeValue(typedValue) ==
    CASE typedValue.type = "EMPTY" -> [kind |-> "any_val", val |-> <<>>]
      [] typedValue.type \in ScalarTypes ->
            EncodeScalar(typedValue.type, typedValue.value,
                         IF typedValue.type = "DECIMAL"
                         THEN typedValue.opts[1] ELSE 0)
      [] typedValue.type \in ListTypes ->
            [kind |-> "leaflist_val",
             val |-> [i \in 1..Len(typedValue.value) |->
                         EncodeScalar(ElementTypeOf(typedValue.type),
                                      typedValue.value[i],
                                      IF typedValue.type = "LEAFLIST_DECIMAL"
                                      THEN typedValue.opts[i] ELSE 0)]]

\* Mutant of NativeTypeToGnmiTypedValue: the payload's length is not
\* checked, and a type that is not known is written as the empty value.
NativeTypeToGnmiTypedValueUnchecked(typedValue) ==
    IF typedValue.type \notin ValueTypes
    THEN [w |-> [kind |-> "any_val", val |-> <<>>], err |-> "nil"]
    ELSE [w |-> EncodeValue(typedValue), err |-> "nil"]

\* Mutant of NativeTypeToGnmiTypedValue: a string of 7-bit characters is
\* written as an Ascii value.
NativeTypeToGnmiTypedValueByContent(typedValue) ==
    IF typedValue.type \notin ValueTypes
    THEN [w |-> NilWire, err |-> "UnsupportedType"]
    ELSE IF typedValue.type = "BYTES" /\ Len(typedValue.value) = 0
    THEN [w |-> NilWire, err |-> "InvalidLength"]
    ELSE IF /\ typedValue.type = "STRING"
            /\ \A i \in 1..Len(typedValue.value) : typedValue.value[i] < 128
    THEN [w |-> [kind |-> "ascii_val", val |-> typedValue.value],
          err |-> "nil"]
    ELSE [w |-> EncodeValue(typedValue), err |-> "nil"]

\* NativeTypeToGnmiTypedValue(typedValue): the wire value and the error.
NativeTypeToGnmiTypedValue(typedValue) ==
    IF typedValue.type \notin ValueTypes
    THEN [w |-> NilWire, err |-> "UnsupportedType"]
    ELSE IF typedValue.type = "BYTES" /\ Len(typedValue.value) = 0
    THEN [w |-> NilWire, err |-> "InvalidLength"]
    ELSE [w |-> EncodeValue(typedValue), err |-> "nil"]

\* The TypedValues tried: what decoding builds from every wire value and
\* hint (Bytes of length zero among them), and two of a type outside the
\* enumeration, with and without a payload.
NativeValues ==
    LET decoded == {GnmiTypedValueToNativeType(w, h).v :
                       w \in WireValues \ {[kind |-> "json_val", val |-> <<>>]},
                       h \in Hints}
    IN  decoded \cup
        {[type |-> "99", value |-> <<0, 0, 0, 0>>, opts |-> <<>>],
         [type |-> "99", value |-> <<>>, opts |-> <<>>]}

\* A conversion starts from a wire value or from a TypedValue, with any hint.
CodecInit ==
    /\ DiagsInit /\ snap = NoSnap
    /\ \E h \in Hints :
         \/ \E w \in WireValues :
               codec = [NoCodec EXCEPT !.start = "wire", !.hint = h, !.wire = w]
         \/ \E v \in NativeValues :
               codec = [NoCodec EXCEPT !.start = "native", !.hint = h,
                                       !.native = v]

\* The wire value is decoded.
CodecDecode ==
    /\ codec.start = "wire" /\ codec.step = 0
    /\ LET r == GnmiTypedValueToNativeType(codec.wire, codec.hint) IN
          codec' = [codec EXCEPT !.native = r.v, !.err = r.err, !.step = 1]
    /\ UNCHANGED <<storeVars, opVars, listeners, sessVars, admin, snap>>

\* The decoded value is encoded again.
CodecEncode ==
    /\ codec.start = "wire" /\ codec.step = 1 /\ codec.err = "nil"
    /\ LET r == NativeTypeToGnmiTypedValue(codec.native) IN
          codec' = [codec EXCEPT !.wire2 = r.w, !.err = r.err, !.step = 2]
    /\ UNCHANGED <<storeVars, opVars, listeners, sessVars, admin, snap>>

\* The TypedValue is encoded.
CodecEncodeNative ==
    /\ codec.start = "native" /\ codec.step = 0
    /\ LET r == NativeTypeToGnmiTypedValue(codec.native) IN
          codec' = [codec EXCEPT !.wire = r.w, !.err = r.err, !.step = 1]
    /\ UNCHANGED <<storeVars, opVars, listeners, sessVars, admin, snap>>

\* The encoded value is decoded again.
CodecDecodeBack ==
    /\ codec.start = "native" /\ codec.step = 1 /\ codec.err = "nil"
    /\ LET r == GnmiTypedValueToNativeType(codec.wire, codec.hint) IN
          codec' = [codec EXCEPT !.native2 = r.v, !.err = r.err, !.step = 2]
    /\ UNCHANGED <<storeVars, opVars, listeners, sessVars, admin, snap>>

CodecNext ==
    \/ CodecDecode
    \/ CodecEncode
    \/ CodecEncodeNative
    \/ CodecDecodeBack

SpecCodec == CodecInit /\ [][CodecNext]_vars

\* ============================================================== claims
IsPrefix(a, b) == Len(a) <= Len(b) /\ SubSeq(b, 1, Len(a)) = a

Range(a) == {a[i] : i \in 1..Len(a)}

\* A session of one of the two change services whose Watch or List call on
\* the store has succeeded.
ChangeSession(s) == req[s].rpc \in {"net", "dev"} /\ ctxState[s] # "none"

\* The records of log that the session's request asks for: those matching
\* the wildcard for ListNetworkChanges, all of them for ListDeviceChanges.
Wanted(s, log) ==
    IF req[s].rpc = "net"
    THEN SelectSeq(log, LAMBDA id : MatchWildcard(req[s].changeID, id))
    ELSE log

\* The wanted records that were in the log when the session subscribed.
Existing(s) == Wanted(s, SubSeq(Source(s), 1, subStart[s]))

\* C1: a subscribe-mode session with replay delivers the records that were
\* in the log when it subscribed, in creation order, before any record
\* appended later: what it has sent is always an initial part of the
\* (wanted) log, so a later record can only follow all the existing ones.
C1_ReplayFirst ==
    \A s \in Sessions :
       (ChangeSession(s) /\ req[s].subscribe /\ ~req[s].withoutReplay) =>
          /\ IsPrefix(sent[s], Wanted(s, Source(s)))
          /\ IsPrefix(sent[s], Existing(s)) \/ IsPrefix(Existing(s), sent[s])
          /\ (Range(sent[s]) \ Range(Existing(s)) # {}) =>
                IsPrefix(Existing(s), sent[s])

\* A replaying session has delivered its existing record and then one that
\* was appended after it subscribed.
C1_Witness ==
    \E s \in Sessions :
       /\ ChangeSession(s) /\ req[s].subscribe /\ ~req[s].withoutReplay
       /\ Len(Existing(s)) >= 1
       /\ Len(sent[s]) > Len(Existing(s))

Start(s) == IF req[s].withoutReplay THEN subStart[s] ELSE 0

\* The number of records the handler has taken from its channel and dealt
\* with: a record whose Send failed was taken but not delivered.
Handled(s) == cursor[s] - (IF sendFailed[s] THEN 1 ELSE 0)

\* The position of x in the sequence a (0 if absent).
Pos(a, x) == IF x \in Range(a) THEN CHOOSE i \in 1..Len(a) : a[i] = x ELSE 0

\* C3: with appenders running beside the subscribe-mode sessions, what a
\* session has sent is exactly the (wanted) records of one unbroken stretch
\* of the log, from where its watch started to the last record it handled:
\* in append order, none twice, none skipped between replay and live.  Any
\* two sessions on the same log agree on the order of the records both sent.
C3_SingleOrder ==
    /\ \A s \in Sessions :
         (ChangeSession(s) /\ req[s].subscribe) =>
            /\ sent[s] = Wanted(s, SubSeq(Source(s), Start(s) + 1, Handled(s)))
            /\ \A i, j \in 1..Len(sent[s]) : i # j => sent[s][i] # sent[s][j]
    /\ \A s, t \in Sessions :
         (/\ ChangeSession(s) /\ ChangeSession(t)
          /\ req[s].subscribe /\ req[t].subscribe
          /\ req[s].rpc = req[t].rpc /\ req[s].key = req[t].key) =>
            \A x, y \in Range(sent[s]) \cap Range(sent[t]) :
               Pos(sent[s], x) < Pos(sent[s], y) <=>
               Pos(sent[t], x) < Pos(sent[t], y)

\* Two sessions on the same non-empty log, one replaying and one not, with
\* a record appended after they subscribed; the replaying one has crossed
\* from replayed records to live ones, and both have sent the same live
\* record.
C3_Witness ==
    \E s, t \in Sessions :
       /\ s # t /\ ChangeSession(s) /\ ChangeSession(t)
       /\ req[s].subscribe /\ req[t].subscribe
       /\ req[s].rpc = req[t].rpc /\ req[s].key = req[t].key
       /\ ~req[s].withoutReplay /\ req[t].withoutReplay
       /\ Len(Existing(s)) >= 1 /\ subStart[t] >= 1
       /\ Len(sent[s]) > Len(Existing(s))
       /\ Range(sent[s]) \cap Range(sent[t]) # {}

\* C4: a List (subscribe = false) that runs to completion, that is, returns
\* because the store closed the change channel, has sent every wanted
\* record that was committed when it was called, in log order; whatever
\* else it sent are records committed during the call, also in log order.
C4_ListComplete ==
    \A s \in Sessions :
       (ChangeSession(s) /\ ~req[s].subscribe /\ endedBy[s] = "closed") =>
          /\ IsPrefix(Wanted(s, SubSeq(Source(s), 1, listEnd[s])), sent[s])
          /\ sent[s] = Wanted(s, SubSeq(Source(s), 1, cursor[s]))

\* A List called on a log of two records, one of them wanted, has run to
\* completion.
C4_Witness ==
    \E s \in Sessions :
       /\ ChangeSession(s) /\ ~req[s].subscribe /\ endedBy[s] = "closed"
       /\ listEnd[s] >= 2
       /\ Len(sent[s]) >= 1

\* C5: with subscribe = false every handler returns: a called session ends.
C5_ListTerminates ==
    \A s \in Sessions :
       (pc[s] # "idle" /\ ~req[s].subscribe) ~> (pc[s] = "done")

\* A session without subscribe has drained a non-empty snapshot and
\* returned nil.
C5_Witness ==
    \E s \in Sessions :
       /\ pc[s] = "done" /\ ~req[s].subscribe /\ ret[s] = "nil"
       /\ endedBy[s] \in {"closed", "noSubscribe"}
       /\ sent[s] # <<>>

\* The first position of the log a network-change session reads from.
First(s) == IF req[s].subscribe THEN Start(s) ELSE 0

\* C6: in ListNetworkChanges, of the changes the handler has dealt with,
\* exactly those whose ID matches the request's pattern are on the stream;
\* only a matching change can make a Send fail; and taking a change that
\* does not match sends nothing, raises no error and leaves the handler in
\* its loop.
C6_WildcardFilter ==
    /\ [](\A s \in Sessions :
            (req[s].rpc = "net" /\ ChangeSession(s)) =>
               /\ \A i \in (First(s) + 1)..Handled(s) :
                     (netLog[i] \in Range(sent[s]))
                        <=> MatchWildcard(req[s].changeID, netLog[i])
               /\ Range(sent[s]) \subseteq
                     {netLog[i] : i \in (First(s) + 1)..Handled(s)}
               /\ sendFailed[s] =>
                     MatchWildcard(req[s].changeID, netLog[cursor[s]]))
    /\ [][\A s \in Sessions :
            (/\ req[s].rpc = "net" /\ cursor'[s] = cursor[s] + 1
             /\ ~MatchWildcard(req[s].changeID, netLog[cursor[s] + 1])) =>
               /\ pc'[s] = "select" /\ ret'[s] = ret[s]
               /\ sent'[s] = sent[s] /\ ~sendFailed'[s]]_vars

\* A session has skipped a change that does not match and then sent a later
\* one that does.
C6_Witness ==
    \E s \in Sessions :
       /\ req[s].rpc = "net" /\ ChangeSession(s)
       /\ \E i, j \in (First(s) + 1)..Handled(s) :
             /\ i < j
             /\ ~MatchWildcard(req[s].changeID, netLog[i])
             /\ netLog[j] \in Range(sent[s])

\* The session's subscription is still held: its listener is registered
\* with the dispatcher, or its store context is open.
Held(s) ==
    \/ addr[s] \in DOMAIN listeners /\ listeners[addr[s]] = s
    \/ ctxState[s] = "open"

\* C7: once the handler of a subscribed session has returned, by whatever
\* exit, its subscription has been released.
C7_Released ==
    \A s \in Sessions : (pc[s] = "done" /\ req[s].subscribe) => ~Held(s)

\* C8: a handler whose context is cancelled while it is parked in select
\* does nothing but return nil: it sends no further message.
C8_CancelReturnsNil ==
    /\ [](\A s \in Sessions :
            cancelledWaiting[s] =>
               /\ pc[s] \in {"wokenDone", "done"}
               /\ pc[s] = "done" => ret[s] = "nil")
    /\ [][\A s \in Sessions : cancelledWaiting[s] => sent'[s] = sent[s]]_vars

\* A session that had sent a message was cancelled while parked and has
\* returned.
C8_Witness ==
    \E s \in Sessions :
       cancelledWaiting[s] /\ pc[s] = "done" /\ sent[s] # <<>>

\* C9: once the channel feeding a subscribed session is closed, the handler
\* returns.
C9_SourceCloseEnds ==
    \A s \in Sessions :
       (req[s].subscribe /\ srcClosed[s]) ~> (pc[s] = "done")

\* C10: a failed Send ends the session with the send error as its result,
\* and the step in which it fails leaves the change stores and the
\* operational-state cache as they were.
C10_SendFailure ==
    /\ [](\A s \in Sessions :
            sendFailed[s] => pc[s] = "done" /\ ret[s] = "sendErr")
    /\ [][\A s \in Sessions :
            (sendFailed'[s] /\ ~sendFailed[s]) => UNCHANGED storeVars]_vars

\* A Send has failed in the live phase of a session that had already sent
\* messages, with records in the store.
C10_Witness ==
    \E s \in Sessions :
       /\ sendFailed[s] /\ req[s].subscribe /\ sent[s] # <<>>
       /\ Len(Source(s)) >= 2

\* The session owns a registration in the dispatcher's listener table.
Registered(s) == \E a \in DOMAIN listeners : listeners[a] = s

\* C11: GetOpState for a device with no entry in the operational-state cache
\* ends at once with the no-cache error, having sent nothing and registered
\* no listener; for a device whose entry exists and holds no path it is not
\* an error: nothing is sent, and without subscribe the call returns nil.
C11_NoCacheIsError ==
    \A s \in Sessions :
       (req[s].rpc = "op" /\ pc[s] # "idle") =>
          /\ req[s].deviceId \notin DOMAIN cache =>
                /\ pc[s] = "done" /\ ret[s] = "noCacheErr"
                /\ sent[s] = <<>> /\ ~Registered(s)
          /\ (/\ req[s].deviceId \in DOMAIN cache
              /\ cache[req[s].deviceId] = EmptyMap) =>
                /\ ret[s] \in {"none", "nil"}
                /\ sent[s] = <<>>
                /\ (pc[s] = "done" /\ ~req[s].subscribe) =>
                      ret[s] = "nil" /\ endedBy[s] = "noSubscribe"

\* A subscribing call for a device without a cache has returned, while
\* another device's cache holds a value.
C11_Witness ==
    \E s \in Sessions :
       /\ req[s].rpc = "op" /\ req[s].subscribe
       /\ req[s].deviceId \notin DOMAIN cache
       /\ pc[s] = "done"
       /\ \E d \in DOMAIN cache : cache[d] # EmptyMap

\* The messages of the live phase, and of the snapshot, on the stream.
Live(s) == SelectSeq(sent[s], LAMBDA m : m.type = "ADDED")
Snapshot(s) == SelectSeq(sent[s], LAMBDA m : m.type = "NONE")

\* The events the session's listener has been handed and the handler has
\* dealt with.
Taken(s) == SubSeq(opEvents, subStart[s] + 1, Handled(s))

\* The ADDED messages for the events of q that are for device d.
Forwarded(q, d) ==
    LET mine == SelectSeq(q, LAMBDA ev : ev.subject = d)
    IN  [i \in 1..Len(mine) |->
            [type |-> "ADDED", path |-> mine[i].path, value |-> mine[i].value]]

\* C12: a listener is handed the events of every device, and a subscribed
\* GetOpState session forwards exactly those whose device is the requested
\* one, in order; taking an event for another device sends nothing and
\* leaves the session in its loop.
C12_DeviceFilter ==
    /\ [](\A s \in Sessions :
            (req[s].rpc = "op" /\ req[s].subscribe) =>
               Live(s) = Forwarded(Taken(s), req[s].deviceId))
    /\ [][\A s \in Sessions :
            (/\ req[s].rpc = "op" /\ cursor'[s] = cursor[s] + 1
             /\ opEvents[cursor[s] + 1].subject # req[s].deviceId) =>
               /\ pc'[s] = "select" /\ ret'[s] = ret[s]
               /\ sent'[s] = sent[s] /\ ~sendFailed'[s]]_vars

\* A subscribed session has dropped an event for another device and then
\* forwarded one for its own.
C12_Witness ==
    \E s \in Sessions :
       /\ req[s].rpc = "op" /\ req[s].subscribe
       /\ \E i, j \in (subStart[s] + 1)..Handled(s) :
             /\ i < j
             /\ opEvents[i].subject # req[s].deviceId
             /\ opEvents[j].subject = req[s].deviceId
       /\ Len(Live(s)) >= 1

\* The (path, value) pairs that have been written to device d's cache.
Written(d) ==
    {<<ev.path, ev.value>> :
        ev \in {e \in Range(opEvents) \cup Range(opPending) : e.subject = d}}

\* An update for the session's device, written after the call read the cache
\* and dispatched before the listener was registered, is on the stream
\* neither as a snapshot entry nor as a live event.
Missed(s) ==
    \E i \in 1..subStart[s] :
       /\ opEvents[i].subject = req[s].deviceId
       /\ opEvents[i].path \notin snapDom[s]
       /\ \A k \in 1..Len(sent[s]) : sent[s][k].path # opEvents[i].path

\* An update written after the call read the cache is on the stream twice:
\* as a snapshot entry and as a live event.
Doubled(s) ==
    \E i \in 1..Len(Snapshot(s)), j \in 1..Len(Live(s)) :
       /\ Snapshot(s)[i].path = Live(s)[j].path
       /\ Snapshot(s)[i].value = Live(s)[j].value
       /\ Snapshot(s)[i].path \notin snapDom[s]

Target ==
    IF \E i \in 1..Len(admin.before) : netLog[i] = admin.name
    THEN CHOOSE i \in 1..Len(admin.before) : netLog[i] = admin.name
    ELSE 0

\* A rollback has been requested and answered.
Answered == admin.ret # "none"

\* C14: rollback follows stack discipline.  A request naming an APPLIED
\* change while a newer change is APPLIED is refused as not the most recent
\* and changes no phase; a request naming the most recent APPLIED change
\* succeeds and sets it rolling back, and a change that is rolling back
\* moves nowhere but to ROLLED_BACK, which it reaches.
C14_StackDiscipline ==
    /\ [](Answered /\ Target > 0 /\ admin.before[Target] = "APPLIED" =>
            IF \E j \in (Target + 1)..Len(admin.before) :
                  admin.before[j] = "APPLIED"
            THEN admin.ret = "notMostRecent" /\ admin.after = admin.before
            ELSE /\ admin.ret = "ok"
                 /\ admin.after =
                       [admin.before EXCEPT ![Target] = "ROLLING_BACK"])
    /\ [][\A i \in 1..Len(phase) :
            phase[i] = "ROLLING_BACK" =>
               phase'[i] \in {"ROLLING_BACK", "ROLLED_BACK"}]_vars
    /\ \A i \in 1..MaxNetLog :
          (i <= Len(phase) /\ phase[i] = "ROLLING_BACK")
             ~> (i <= Len(phase) /\ phase[i] = "ROLLED_BACK")

\* With A applied before B and both APPLIED, the rollback of B was accepted
\* and B is ROLLED_BACK while A is still APPLIED.
C14_Witness ==
    /\ admin.ret = "ok" /\ Target >= 2
    /\ \E a \in 1..(Target - 1) :
          admin.before[a] = "APPLIED" /\ phase[a] = "APPLIED"
    /\ phase[Target] = "ROLLED_BACK"

\* C15: a rollback request with the empty name, or with a name that matches
\* no NetworkChange, fails with the error of that constraint (empty name;
\* change not found) and leaves the phase of every NetworkChange as it was.
C15_BadNameRejected ==
    Answered =>
       /\ admin.name = <<>> =>
             admin.ret = "emptyName" /\ admin.after = admin.before
       /\ (admin.name # <<>> /\ Target = 0) =>
             admin.ret = "notFound" /\ admin.after = admin.before

\* A request naming an unknown change was refused while the store held an
\* APPLIED change.
C15_Witness ==
    /\ admin.name # <<>> /\ Target = 0 /\ admin.ret = "notFound"
    /\ \E i \in 1..Len(admin.before) : admin.before[i] = "APPLIED"

\* The string holds no separator.
NoSeparator(str) == \A i \in 1..Len(str) : <<str[i]>> # separator

\* C16: for a network ID and a device ID that hold no ':', the device ID
\* read back from the snapshot ID made of them is the device ID.
C16_SnapshotRoundTrip ==
    (snap.pc = "got" /\ NoSeparator(snap.networkID)
        /\ NoSeparator(snap.deviceID)) =>
       snap.got = snap.deviceID

\* The device ID was read back from a snapshot ID made of a non-empty network
\* ID and a non-empty device ID without separators.
C16_Witness ==
    /\ snap.pc = "got"
    /\ NoSeparator(snap.networkID) /\ NoSeparator(snap.deviceID)
    /\ Len(snap.networkID) >= 1 /\ Len(snap.deviceID) >= 2
    /\ snap.got = snap.deviceID

\* A wire value of a kind the codec knows, none of whose Bytes is empty.
ValidScalar(w) ==
    w.kind \in ScalarKinds /\ (w.kind = "bytes_val" => Len(w.val) > 0)
ValidWire(w) ==
    \/ ValidScalar(w)
    \/ w.kind = "any_val"
    \/ w.kind = "leaflist_val" /\ \A i \in 1..Len(w.val) : ValidScalar(w.val[i])

\* The value type that corresponds to a scalar wire kind.
TagOf(kind) ==
    CASE kind \in {"string_val", "ascii_val"} -> "STRING"
      [] kind = "int_val" -> "INT"
      [] kind = "uint_val" -> "UINT"
      [] kind = "bool_val" -> "BOOL"
      [] kind = "bytes_val" -> "BYTES"
      [] kind = "float_val" -> "FLOAT"
      [] kind = "decimal_val" -> "DECIMAL"

\* The value type that corresponds to a valid wire value.
TagOfWire(w) ==
    CASE w.kind = "any_val" -> "EMPTY"
      [] w.kind = "leaflist_val" -> "LEAFLIST_" \o TagOf(w.val[1].kind)
      [] OTHER -> TagOf(w.kind)

\* The wire value with String in the place of Ascii.
AsciiAsString(w) ==
    CASE w.kind = "ascii_val" -> [w EXCEPT !.kind = "string_val"]
      [] w.kind = "leaflist_val" ->
            [w EXCEPT !.val = [i \in 1..Len(w.val) |->
                IF w.val[i].kind = "ascii_val"
                THEN [w.val[i] EXCEPT !.kind = "string_val"] ELSE w.val[i]]]
      [] OTHER -> w

\* A TypedValue of a known type, none of whose Bytes is empty.
Representable(v) ==
    /\ v.type \in ValueTypes
    /\ v.type = "BYTES" => Len(v.value) > 0
    /\ v.type = "LEAFLIST_BYTES" =>
          \A i \in 1..Len(v.value) : Len(v.value[i]) > 0

\* The hint is the one of the context the TypedValue came from: for an
\* integer, it gives the integer's width.
HintFits(v, h) ==
    v.type \in {"INT", "UINT", "LEAFLIST_INT", "LEAFLIST_UINT"} =>
       h.typeOpts = v.opts

\* A valid wire value decodes, without a hint, to the value type of its kind.
DecodesToTag ==
    (codec.start = "wire" /\ codec.step >= 1 /\ ValidWire(codec.wire)) =>
       (codec.step = 1 => codec.err = "nil")
          /\ codec.native.type = TagOfWire(codec.wire)

\* A TypedValue, encoded and decoded with the hint of its context, is itself.
NativeRoundTrip ==
    (codec.start = "native" /\ Representable(codec.native)
        /\ HintFits(codec.native, codec.hint)) =>
       /\ codec.step = 1 =>
             codec.err = "nil" /\ TagOfWire(codec.wire) = codec.native.type
       /\ codec.step = 2 =>
             codec.err = "nil" /\ codec.native2 = codec.native

Widest == CHOOSE w \in Widths : \A v \in Widths : v <= w

\* C18: a wire integer or unsigned integer decodes to a TypedValue with
\* exactly the wire's numeric value; its width is the hinted width when the
\* hint gives one and the widest width when there is no hint.
C18_WidthHint ==
    (/\ codec.start = "wire" /\ codec.step >= 1
     /\ codec.wire.kind \in {"int_val", "uint_val"}) =>
       /\ codec.native.type = TagOf(codec.wire.kind)
       /\ codec.native.value = codec.wire.val
       /\ Len(codec.hint.typeOpts) > 0 =>
             codec.native.opts = <<codec.hint.typeOpts[1]>>
       /\ codec.hint = NoHint => codec.native.opts = <<Widest>>

\* An integer that does not fit 8 bits was decoded with a hint of width 8.
C18_Witness ==
    /\ codec.start = "wire" /\ codec.step >= 1
    /\ codec.wire.kind = "int_val" /\ codec.wire.val < -128
    /\ codec.hint.typeOpts = <<8>>
    /\ codec.native.opts = <<8>> /\ codec.native.value = codec.wire.val

\* C19: encoding a TypedValue of type Bytes with an empty payload fails with
\* the invalid-length error, encoding one whose type is outside the
\* enumeration fails with the unsupported-type error, and in both cases the
\* wire value returned is nil.
C19_EncodeErrors ==
    (codec.start = "native" /\ codec.step >= 1) =>
       /\ (codec.native.type = "BYTES" /\ Len(codec.native.value) = 0) =>
             codec.err = "InvalidLength" /\ codec.wire = NilWire
       /\ codec.native.type \notin
             {"EMPTY", "STRING", "INT", "UINT", "BOOL", "BYTES", "FLOAT",
              "DECIMAL", "LEAFLIST_STRING", "LEAFLIST_INT", "LEAFLIST_UINT",
              "LEAFLIST_BOOL", "LEAFLIST_BYTES", "LEAFLIST_FLOAT",
              "LEAFLIST_DECIMAL"} =>
                codec.err = "UnsupportedType" /\ codec.wire = NilWire

\* A TypedValue of type 99 with a payload of four bytes was refused.
C19_Witness ==
    /\ codec.start = "native" /\ codec.step >= 1
    /\ codec.native.type = "99" /\ Len(codec.native.value) = 4
    /\ codec.err = "UnsupportedType"

\* The wire kind of a scalar value type: the one kind that corresponds to it
\* and is not Ascii.
TagToKind(type) ==
    CHOOSE k \in ScalarKinds \ {"ascii_val"} : TagOf(k) = type

\* The wire value the conversion has encoded (nil if none yet).
Encoded ==
    IF codec.start = "wire" THEN codec.wire2
    ELSE IF codec.start = "native" /\ codec.step >= 1 THEN codec.wire
    ELSE NilWire

\* C20: an Ascii and a String wire value (or leaf-list) decode to the same
\* TypedValue, of type STRING (LEAFLIST_STRING) with the wire's text; and the
\* kind a TypedValue is encoded as is the kind of its type, for the value
\* and for each element of a list, whatever its content.
C20_AsciiIsString ==
    /\ (codec.start = "wire" /\ codec.step >= 1
           /\ codec.wire.kind \in {"ascii_val", "string_val"}) =>
          codec.native = NewTypedValueString(codec.wire.val)
    /\ (codec.start = "wire" /\ codec.step >= 1
           /\ codec.wire.kind = "leaflist_val"
           /\ codec.wire.val[1].kind \in {"ascii_val", "string_val"}) =>
          /\ codec.native.type = "LEAFLIST_STRING"
          /\ codec.native.value =
                [i \in 1..Len(codec.wire.val) |-> codec.wire.val[i].val]
    /\ (Encoded # NilWire /\ codec.native.type \in ScalarTypes) =>
          Encoded.kind = TagToKind(codec.native.type)
    /\ (Encoded # NilWire /\ codec.native.type \in ListTypes) =>
          /\ Encoded.kind = "leaflist_val"
          /\ \A i \in 1..Len(Encoded.val) :
                Encoded.val[i].kind =
                   TagToKind(ElementTypeOf(codec.native.type))

\* A leaf-list of Ascii values was decoded to a LEAFLIST_STRING and encoded
\* as a leaf-list of String values.
C20_Witness ==
    /\ codec.start = "wire" /\ codec.step = 2
    /\ codec.wire.kind = "leaflist_val" /\ Len(codec.wire.val) >= 2
    /\ codec.wire.val[1].kind = "ascii_val"
    /\ codec.native.type = "LEAFLIST_STRING"
    /\ codec.wire2.val[1].kind = "string_val"
    /\ codec.wire2.val[1].val = codec.wire.val[1].val

\* The range loop of the session has run to its end: the handler is past it
\* and no Send of the snapshot failed.
RangeDone(s) ==
    /\ pc[s] \notin {"idle", "snap"}
    /\ endedBy[s] # "noCache"
    /\ ~(endedBy[s] = "sendErr" /\ cursor[s] = 0)

\* The paths of the snapshot messages on the stream.
SnapshotPaths(s) == {Snapshot(s)[i].path : i \in 1..Len(Snapshot(s))}

\* C21: in a GetOpState session every entry the range loop over the device's
\* cache produces goes out as one NONE message with the value the cache
\* holds for its path, no path twice, and once the loop has ended every
\* path the cache held when it began has its message; no NONE message
\* follows a live one; and a live message has type ADDED and the event's
\* path and value, whether the event's kind is ADDED or CHANGED.
C21_SnapshotThenLive ==
    /\ [](\A s \in Sessions :
            (req[s].rpc = "op" /\ pc[s] # "idle") =>
               /\ Len(Snapshot(s)) = Cardinality(SnapshotPaths(s))
               /\ SnapshotPaths(s) \subseteq visited[s]
               /\ RangeDone(s) =>
                     snapDom[s] \subseteq SnapshotPaths(s)
                     /\ SnapshotPaths(s) = visited[s]
               /\ \A i, j \in 1..Len(sent[s]) :
                     (i < j /\ sent[s][i].type = "ADDED") =>
                        sent[s][j].type = "ADDED"
               /\ \A i \in 1..Len(sent[s]) :
                     sent[s][i].type \in {"NONE", "ADDED"})
    /\ [][\A s \in Sessions :
            (req[s].rpc = "op" /\ Len(sent'[s]) = Len(sent[s]) + 1) =>
               LET m == sent'[s][Len(sent'[s])] IN
                 IF pc[s] = "snap"
                 THEN /\ m.type = "NONE"
                      /\ m.path \in DOMAIN cache[req[s].deviceId]
                      /\ m.value = cache[req[s].deviceId][m.path]
                 ELSE /\ m.type = "ADDED"
                      /\ opEvents[cursor[s] + 1].kind \in {"ADDED", "CHANGED"}
                      /\ m.path = opEvents[cursor[s] + 1].path
                      /\ m.value = opEvents[cursor[s] + 1].value]_vars

\* A subscribed session has sent a snapshot entry and then forwarded an
\* event whose kind is CHANGED.
C21_Witness ==
    \E s \in Sessions :
       /\ req[s].rpc = "op" /\ req[s].subscribe
       /\ Len(Snapshot(s)) >= 1
       /\ Len(Live(s)) >= 1
       /\ ~sendFailed[s]
       /\ cursor[s] > subStart[s]
       /\ opEvents[cursor[s]].subject = req[s].deviceId
       /\ opEvents[cursor[s]].kind = "CHANGED"

\* A session of a change service called with subscribe = false.
ListSession(s) == ChangeSession(s) /\ ~req[s].subscribe

\* C22: with subscribe = false the WithoutReplay flag changes nothing.  The
\* List call starts at the head of the log and ends at its length whatever
\* the flag, and what the session has sent is the wanted records among
\* those it handled from the head of the log: a function of the log, the
\* pattern and the progress made in which the flag does not occur, so the
\* same for WithoutReplay = true as for WithoutReplay = false.
C22_WithoutReplayIgnored ==
    /\ [](\A s \in Sessions :
            ListSession(s) =>
               /\ sent[s] = Wanted(s, SubSeq(Source(s), 1, Handled(s)))
               /\ endedBy[s] = "closed" =>
                     IsPrefix(Wanted(s, SubSeq(Source(s), 1, listEnd[s])),
                              sent[s]))
    /\ [][\A s \in Sessions :
            (/\ pc[s] = "idle" /\ pc'[s] = "select"
             /\ req'[s].rpc \in {"net", "dev"} /\ ~req'[s].subscribe) =>
               /\ cursor'[s] = 0
               /\ listEnd'[s] = Len(IF req'[s].rpc = "net" THEN netLog
                                    ELSE devLog[req'[s].key])]_vars

\* A List called with WithoutReplay = true on a store that held a wanted
\* record has run to completion and sent it.
C22_Witness ==
    \E s \in Sessions :
       /\ ListSession(s) /\ req[s].withoutReplay
       /\ endedBy[s] = "closed"
       /\ Len(Wanted(s, SubSeq(Source(s), 1, listEnd[s]))) >= 1
       /\ Len(sent[s]) >= 1

\* The handler of session s takes the step.
HandlerStep(s) ==
    pc'[s] # pc[s] \/ sent'[s] # sent[s] \/ visited'[s] # visited[s]

\* C23: a GetOpState call with subscribe = false leaves the dispatcher's
\* listener table alone: no step of its handler, from the call to the return
\* by whichever exit, changes the table, and no registration is ever owned
\* by such a session.
C23_NoSubscribeNoListener ==
    /\ [](\A a \in DOMAIN listeners :
            req[listeners[a]].rpc = "op" /\ req[listeners[a]].subscribe)
    /\ [][\A s \in Sessions :
            (req'[s].rpc = "op" /\ ~req'[s].subscribe /\ HandlerStep(s)) =>
               listeners' = listeners]_vars

\* With another stream's listener in the table, a call without subscribe
\* has sent its snapshot and returned nil.
C23_Witness ==
    \E s, t \in Sessions :
       /\ s # t /\ Registered(t)
       /\ req[s].rpc = "op" /\ ~req[s].subscribe
       /\ pc[s] = "done" /\ endedBy[s] = "noSubscribe"
       /\ sent[s] # <<>>

\* C24: an error of the store's Watch or List ends ListNetworkChanges or
\* ListDeviceChanges in the step of the call, with that error as the result
\* and nothing sent; an error of RegisterOpState, which the dispatcher
\* raises when the stream's ID is registered already, ends GetOpState in
\* that step with that error as the result, no live message sent and the
\* table as it was.
C24_SetupErrorReturned ==
    /\ [](\A s \in Sessions :
            /\ endedBy[s] = "storeErr" =>
                  /\ req[s].rpc \in {"net", "dev"}
                  /\ pc[s] = "done" /\ ret[s] = "storeErr"
                  /\ sent[s] = <<>> /\ ctxState[s] = "none"
            /\ endedBy[s] = "regErr" =>
                  /\ req[s].rpc = "op"
                  /\ pc[s] = "done" /\ ret[s] = "regErr"
                  /\ Live(s) = <<>>
                  /\ \A a \in DOMAIN listeners : listeners[a] # s)
    /\ [][\A s \in Sessions :
            /\ (endedBy'[s] = "storeErr" /\ endedBy[s] # "storeErr") =>
                  pc[s] = "idle" /\ pc'[s] = "done"
            /\ (/\ req[s].rpc = "op" /\ req[s].subscribe
                /\ pc[s] = "snap" /\ pc'[s] # "snap" /\ ~sendFailed'[s]
                /\ addr[s] \in DOMAIN listeners) =>
                  /\ pc'[s] = "done" /\ ret'[s] = "regErr"
                  /\ listeners' = listeners /\ sent'[s] = sent[s]]_vars

\* A subscribing call whose stream ID was in the table already has sent its
\* snapshot and returned the registration error.
C24_Witness ==
    \E s \in Sessions :
       /\ req[s].rpc = "op" /\ req[s].subscribe
       /\ endedBy[s] = "regErr" /\ ret[s] = "regErr"
       /\ sent[s] # <<>>

\* C25: a ListDeviceChanges session sends every change the store hands it
\* for its key (DeviceID, DeviceVersion): what it has sent is, change for
\* change and in the store's order, the stretch of that key's log from
\* where it started reading to the last change it handled, so none is
\* skipped and none sent twice; and no change stored under another key is
\* ever on its stream.
C25_DeviceChangesUnfiltered ==
    \A s \in Sessions :
       (req[s].rpc = "dev" /\ ChangeSession(s)) =>
          /\ sent[s] = SubSeq(devLog[req[s].key], First(s) + 1, Handled(s))
          /\ \A i, j \in 1..Len(sent[s]) : i # j => sent[s][i] # sent[s][j]
          /\ \A k \in DevKeys \ {req[s].key} :
                Range(sent[s]) \cap Range(devLog[k]) = {}

\* A session has sent the change of its key that followed, in the store, a
\* change of the same device under another version.
C25_Witness ==
    \E s \in Sessions :
       /\ req[s].rpc = "dev" /\ ChangeSession(s)
       /\ \E k \in DevKeys \ {req[s].key} :
             /\ k[1] = req[s].key[1]
             /\ devLog[k] # <<>>
             /\ \E i \in 1..Len(sent[s]) : sent[s][i] > devLog[k][1]

\* What follows the first separator of str; str itself if it holds none.
AfterFirstSeparator(str) ==
    IF NoSeparator(str) THEN str
    ELSE LET k == CHOOSE i \in 1..Len(str) :
                     /\ <<str[i]>> = separator
                     /\ NoSeparator(SubSeq(str, 1, i - 1))
         IN  SubSeq(str, k + 1, Len(str))

\* C26: GetDeviceID returns what follows the first ':' of the ID, and the
\* whole ID when it holds no ':'.  So the device ID read back from
\* GetSnapshotID(netID, devID) is devID whenever netID holds no ':', whether
\* or not devID holds one, and is not devID whenever netID holds one.
C26_FirstSeparator ==
    /\ snap.pc \in {"got", "read"} => snap.got = AfterFirstSeparator(snap.id)
    /\ (snap.pc = "read" /\ NoSeparator(snap.id)) => snap.got = snap.id
    /\ snap.pc = "got" =>
          /\ NoSeparator(snap.networkID) => snap.got = snap.deviceID
          /\ ~NoSeparator(snap.networkID) => snap.got # snap.deviceID

\* The device ID was read back from a snapshot ID whose network ID holds a
\* ':' and whose device ID holds none, and it is not the device ID.
C26_Witness ==
    /\ snap.pc = "got"
    /\ ~NoSeparator(snap.networkID) /\ Len(snap.networkID) >= 2
    /\ NoSeparator(snap.deviceID) /\ Len(snap.deviceID) >= 1
    /\ snap.got # snap.deviceID

====
